---- MODULE Spec2Model ----
(***************************************************************************)
(* Model of the ssh-portfolio "now playing" widget:                        *)
(*   - package albumart : RenderFromURL and its render cache               *)
(*   - package spotify  : Client (access token refresh, track endpoints)   *)
(*   - package main     : the Bubble Tea session model (Init/Update/View)  *)
(* The specifications share the variables: SpecCache drives the renderer,  *)
(* SpecPlaceholder the renderer for an empty URL, SpecToken the Spotify    *)
(* client, Spec the sessions, SpecFetch the sessions with fetchTrack step  *)
(* by step, SpecView the sessions with View, SpecWidget the widget texts,  *)
(* SpecLocks the renderer and the client together.                         *)
(***************************************************************************)
EXTENDS Integers, Sequences, FiniteSets, TLC

VARIABLES
    now,        \* wall clock, in seconds since process start (time.Now())
    nsec,       \* sub-second reading of the clock: the timestamps taken so far
    cache,      \* albumart.cache : URL -> cacheEntry
    cacheMu,    \* albumart.cacheMu : sync.RWMutex (writer set, reader set)
    rc,         \* per goroutine: the activation of RenderFromURL / ClearCache
    events,     \* environment events so far (clock jumps, ClearCache calls, odd sizes)
    warm,       \* renders done one after another before any goroutine ran concurrently
    accessToken,    \* spotify.Client.accessToken
    tokenExpiry,    \* spotify.Client.tokenExpiry, in seconds
    mu,             \* spotify.Client.mu : sync.RWMutex (writer set, reader set)
    fc,             \* per goroutine: the activation of fetchTrack and the Client calls it makes
    posts,          \* token POSTs sent so far (counted up to MaxCount)
    evCalls,        \* ensureValidToken calls so far (counted up to MaxCount)
    allLong,        \* every token response so far carried expires_in >= 90
    env,            \* the three SPOTIFY_* variables of the process environment
    spotifyClient,  \* main.spotifyClient: TRUE for a Client, FALSE for nil
    sess,           \* per session: the Bubble Tea program and its model
    screen          \* per session: what the last call of View returned

cacheVars == <<cache, cacheMu, rc>>
cacheSpecVars == <<nsec, cache, cacheMu, rc, events, warm>>
tokenVars == <<accessToken, tokenExpiry, mu, fc, posts, evCalls, allLong>>
mainVars == <<env, spotifyClient, sess, screen>>
vars == <<now, nsec, cache, cacheMu, rc, events, warm,
          accessToken, tokenExpiry, mu, fc, posts, evCalls, allLong,
          env, spotifyClient, sess, screen>>

(***************************************************************************)
(* Bounds of the model.                                                    *)
(***************************************************************************)
NumSessions == 2        \* goroutines calling into the packages
NumURLs == 12           \* distinct artwork URLs
MaxInserts == 2         \* cache insertions after the warm-up renders
MaxCount == 3           \* the counters of POSTs and ensureValidToken calls stop here
MaxInbox == 1           \* messages of one session waiting for Update
MaxNow == 30            \* the clock of the client and the sessions stops here
MaxEvents == 1          \* clock jumps, ClearCache calls and calls with the second size, in a run
MaxCols == 6            \* widest placeholder asked for
MaxRows == 6            \* tallest placeholder asked for

Sessions == 1..NumSessions
EmptyURL == 0
URLs == 1..NumURLs

(***************************************************************************)
(* package albumart                                                        *)
(***************************************************************************)
cacheTTL == 300         \* 5 * time.Minute, in seconds
cacheSize == 10

\* (cols, rows) pairs callers ask for; the first stands for the 16 x 8 cells
\* the widget asks for (part_001:182), scaled down.
DefaultDims == <<2, 1>>
AltDims == <<1, 2>>
Dims == {DefaultDims, AltDims}

\* Tokens a frame string is made of: the reset sequence, the newline, and
\* the cell "ESC[38;2;<fg>m ESC[48;2;<bg>m" followed by one half block.
RESET == [esc |-> "[0m"]
NL == [ch |-> "\n"]
Cell(fg, bg) == [fg |-> fg, bg |-> bg]
gray == Cell(<<60, 60, 60>>, <<40, 40, 40>>)

\* strings.Builder loop bodies, written as recursive concatenations.
RECURSIVE Repeat(_, _)
Repeat(tok, n) == IF n <= 0 THEN <<>> ELSE <<tok>> \o Repeat(tok, n - 1)

\* result[:len(result)-1] when the last byte is '\n'
TrimNewlineKeeps(s) == s
TrimNewline(s) ==
    IF Len(s) > 0 /\ s[Len(s)] = NL THEN SubSeq(s, 1, Len(s) - 1) ELSE s

RECURSIVE PlaceholderRows(_, _)
PlaceholderRows(width, y) ==
    IF y <= 0 THEN <<>>
    ELSE Repeat(gray, width) \o <<RESET, NL>> \o PlaceholderRows(width, y - 1)

renderPlaceholder(width, height) == TrimNewline(PlaceholderRows(width, height))

\* resizeImage: the pixel of image img at (x, y) after scaling to w x h pixels.
\* The colour is an opaque function of the image and the position.
resizeImage(img, x, y) == <<100 + img, x, y>>

RECURSIVE ImageCells(_, _, _, _, _)
ImageCells(img, x, width, y, pixelHeight) ==
    IF x >= width THEN <<>>
    ELSE LET top == resizeImage(img, x, y)
             bot == IF y + 1 < pixelHeight THEN resizeImage(img, x, y + 1) ELSE top
         IN <<Cell(top, bot)>> \o ImageCells(img, x + 1, width, y, pixelHeight)

RECURSIVE ImageRows(_, _, _, _)
ImageRows(img, width, y, pixelHeight) ==
    IF y >= pixelHeight THEN <<>>
    ELSE ImageCells(img, 0, width, y, pixelHeight) \o <<RESET, NL>>
         \o ImageRows(img, width, y + 2, pixelHeight)

renderImage(img, width, height) == TrimNewline(ImageRows(img, width, 0, height * 2))

\* strings.Split(frame, "\n"): the pieces between the newlines, one more
\* than there are newlines (the empty string splits into one empty piece).
RECURSIVE SplitFrom(_, _, _)
SplitFrom(s, i, line) ==
    IF i > Len(s) THEN <<line>>
    ELSE IF s[i] = NL THEN <<line>> \o SplitFrom(s, i + 1, <<>>)
    ELSE SplitFrom(s, i + 1, Append(line, s[i]))
Split(s) == SplitFrom(s, 1, <<>>)

\* strings.Count(line, "\u2580"): the half blocks of a piece, one per cell.
HalfBlocks(line) == Cardinality({i \in DOMAIN line : line[i] \notin {RESET, NL}})

\* The frame has exactly rows lines of exactly cols cells each.
Shaped(frame, cols, rows) ==
    /\ Len(Split(frame)) = rows
    /\ \A i \in DOMAIN Split(frame) : HalfBlocks(Split(frame)[i]) = cols

\* time.Time values: seconds plus the sub-second reading that orders
\* timestamps taken within the same second.
TimeNow == [t |-> now, n |-> nsec]
Before(a, b) == a.t < b.t \/ (a.t = b.t /\ a.n < b.n)

\* time.Since(entry.timestamp) < cacheTTL. A stored timestamp has a lower
\* sub-second reading than the clock, so the seconds decide.
WithinTTLInclusive(timestamp) == now - timestamp.t <= cacheTTL
WithinTTL(timestamp) == now - timestamp.t < cacheTTL

\* Outcomes of http.Get(url): a transport error, or a response whose body
\* either decodes as the image the URL names or does not decode.
HttpErr == "transport error"
DecodeErr == "image: unknown format"
NoErr == "nil"
Statuses == {200, 500}
Bodies == {"image", "garbage"}
Responses == [status : Statuses, body : Bodies]
NoResp == [status |-> 0, body |-> "none"]

NoFrame == <<>>
NoTime == [t |-> -1, n |-> 0]
NoPrev == [ok |-> FALSE, frame |-> NoFrame, ts |-> NoTime]
IdleCall == [pc |-> "idle", op |-> "none", url |-> EmptyURL, width |-> 0, height |-> 0,
             resp |-> NoResp, rendered |-> NoFrame, oldestKey |-> EmptyURL,
             frame |-> NoFrame, err |-> NoErr, got |-> FALSE,
             ts |-> NoTime, prev |-> NoPrev, early |-> FALSE, intact |-> FALSE]

Returned(c) == rc[c].pc = "done" /\ rc[c].op = "render"
AtRest(c) == rc[c].pc \in {"idle", "done"}
InFlight == {c \in Sessions : ~AtRest(c) /\ rc[c].pc \notin {"clear", "clearing"}}

\* sync.RWMutex
RLockFree(m) == m.w = {}
LockFree(m) == m.w = {} /\ m.r = {}

\* lines 87-95: the keys the range loop can end on: an entry no other entry is
\* Before (map iteration order decides among equal timestamps).
OldestPicksNewest(m) == {k \in DOMAIN m : \A j \in DOMAIN m : ~Before(m[k].timestamp, m[j].timestamp)}
Oldest(m) == {k \in DOMAIN m : \A j \in DOMAIN m : ~Before(m[j].timestamp, m[k].timestamp)}
Newest(m) == {k \in DOMAIN m : \A j \in DOMAIN m : ~Before(m[k].timestamp, m[j].timestamp)}

\* The URLs a call may name: the one the goroutine named last, one another
\* activation names, the oldest or the newest entry's, or the lowest URL that
\* no entry and no activation names (URLs are first requested in index order).
Known == (DOMAIN cache \cup {rc[c].url : c \in InFlight}) \ {EmptyURL}
Fresh == IF URLs \ Known = {} THEN {}
         ELSE {CHOOSE u \in URLs \ Known : \A v \in URLs \ Known : u <= v}
Requestable(c) ==
    Fresh \cup Oldest(cache) \cup Newest(cache) \cup {rc[d].url : d \in InFlight}
          \cup {rc[c].url, EmptyURL}

DimsAllowed == IF events < MaxEvents THEN Dims ELSE {DefaultDims}

\* RenderFromURL, lines 53-56: entry and the empty-URL return.
RenderCallLooksUpEmpty(c, url, width, height) ==
    /\ AtRest(c)
    /\ nsec + Cardinality(InFlight) < warm + MaxInserts
    /\ LET last == rc[c]
           again == /\ Returned(c) /\ last.url = url /\ last.width = width
                    /\ last.height = height /\ last.err = NoErr /\ last.got
           call == [IdleCall EXCEPT !.op = "render", !.url = url, !.width = width, !.height = height,
                       !.prev = IF again THEN [ok |-> TRUE, frame |-> last.frame, ts |-> last.ts]
                                ELSE NoPrev]
       IN rc' = [rc EXCEPT ![c] =
                    [call EXCEPT !.pc = "check"]]
    /\ events' = IF <<width, height>> = DefaultDims THEN events ELSE events + 1
    /\ UNCHANGED <<now, nsec, cache, cacheMu, warm, tokenVars, mainVars>>
RenderCall(c, url, width, height) ==
    /\ AtRest(c)
    /\ nsec + Cardinality(InFlight) < warm + MaxInserts
    /\ LET last == rc[c]
           again == /\ Returned(c) /\ last.url = url /\ last.width = width
                    /\ last.height = height /\ last.err = NoErr /\ last.got
           call == [IdleCall EXCEPT !.op = "render", !.url = url, !.width = width, !.height = height,
                       !.prev = IF again THEN [ok |-> TRUE, frame |-> last.frame, ts |-> last.ts]
                                ELSE NoPrev]
       IN rc' = [rc EXCEPT ![c] =
                    IF url = EmptyURL
                    THEN [call EXCEPT !.pc = "done", !.frame = renderPlaceholder(width, height)]
                    ELSE [call EXCEPT !.pc = "check"]]
    /\ events' = IF <<width, height>> = DefaultDims THEN events ELSE events + 1
    /\ UNCHANGED <<now, nsec, cache, cacheMu, warm, tokenVars, mainVars>>

\* line 59: cacheMu.RLock()
RenderRLock(c) ==
    /\ rc[c].pc = "check"
    /\ RLockFree(cacheMu)
    /\ cacheMu' = [cacheMu EXCEPT !.r = @ \cup {c}]
    /\ rc' = [rc EXCEPT ![c].pc = "rlocked"]
    /\ UNCHANGED <<now, nsec, cache, events, warm, tokenVars, mainVars>>

\* lines 60-65: is the lookup a hit?
CacheHitWhenExpired(url) == url \in DOMAIN cache /\ ~WithinTTL(cache[url].timestamp)
CacheHit(url) == url \in DOMAIN cache /\ WithinTTL(cache[url].timestamp)

\* lines 60-66: the lookup under the read lock, and the RUnlock on both paths.
RenderLookupKeepsLockOnMiss(c) ==
    /\ rc[c].pc = "rlocked"
    /\ LET me == rc[c]
           young == me.prev.ok /\ WithinTTL(me.prev.ts)
           same == /\ young /\ me.url \in DOMAIN cache
                   /\ cache[me.url].timestamp = me.prev.ts
       IN rc' = [rc EXCEPT ![c] =
                    IF CacheHit(me.url)
                    THEN [me EXCEPT !.pc = "done", !.frame = cache[me.url].rendered,
                                    !.early = young, !.intact = same]
                    ELSE [me EXCEPT !.pc = "get", !.early = young, !.intact = same]]
    /\ cacheMu' = IF CacheHit(rc[c].url) THEN [cacheMu EXCEPT !.r = @ \ {c}] ELSE cacheMu
    /\ UNCHANGED <<now, nsec, cache, events, warm, tokenVars, mainVars>>
RenderLookup(c) ==
    /\ rc[c].pc = "rlocked"
    /\ LET me == rc[c]
           young == me.prev.ok /\ WithinTTL(me.prev.ts)
           same == /\ young /\ me.url \in DOMAIN cache
                   /\ cache[me.url].timestamp = me.prev.ts
       IN rc' = [rc EXCEPT ![c] =
                    IF CacheHit(me.url)
                    THEN [me EXCEPT !.pc = "done", !.frame = cache[me.url].rendered,
                                    !.early = young, !.intact = same]
                    ELSE [me EXCEPT !.pc = "get", !.early = young, !.intact = same]]
    /\ cacheMu' = [cacheMu EXCEPT !.r = @ \ {c}]
    /\ UNCHANGED <<now, nsec, cache, events, warm, tokenVars, mainVars>>

\* lines 69-73: http.Get(url); a transport error returns the placeholder.
RenderGet(c) ==
    /\ rc[c].pc = "get"
    /\ \/ rc' = [rc EXCEPT ![c].pc = "done", ![c].got = TRUE, ![c].err = HttpErr,
                           ![c].frame = renderPlaceholder(rc[c].width, rc[c].height)]
       \/ \E resp \in Responses :
             rc' = [rc EXCEPT ![c].pc = "decode", ![c].got = TRUE, ![c].resp = resp]
    /\ UNCHANGED <<now, nsec, cache, cacheMu, events, warm, tokenVars, mainVars>>

\* image.Decode(resp.Body): only the body decides; the status is never read.
DecodesAnything(resp) == TRUE
Decodes(resp) == resp.body = "image"

\* lines 76-82: image.Decode, then renderImage.
RenderDecode(c) ==
    /\ rc[c].pc = "decode"
    /\ LET me == rc[c]
       IN rc' = [rc EXCEPT ![c] =
                    IF Decodes(me.resp)
                    THEN [me EXCEPT !.pc = "store",
                                    !.rendered = renderImage(me.url, me.width, me.height)]
                    ELSE [me EXCEPT !.pc = "done", !.err = DecodeErr,
                                    !.frame = renderPlaceholder(me.width, me.height)]]
    /\ UNCHANGED <<now, nsec, cache, cacheMu, events, warm, tokenVars, mainVars>>

\* line 85: cacheMu.Lock()
RenderLock(c) ==
    /\ rc[c].pc = "store"
    /\ LockFree(cacheMu)
    /\ cacheMu' = [cacheMu EXCEPT !.w = {c}]
    /\ rc' = [rc EXCEPT ![c].pc = "wlocked"]
    /\ UNCHANGED <<now, nsec, cache, events, warm, tokenVars, mainVars>>

\* line 87: the cache is full
FullAboveSize(m) == Cardinality(DOMAIN m) > cacheSize
Full(m) == Cardinality(DOMAIN m) >= cacheSize

\* delete(cache, k)
Delete(m, k) == [j \in DOMAIN m \ {k} |-> m[j]]

\* line 98: cache[url] = cacheEntry{...}
PutKeepsExisting(m, url, entry) ==
    [j \in DOMAIN m \cup {url} |-> IF j \in DOMAIN m THEN m[j] ELSE entry]
Put(m, url, entry) == [j \in DOMAIN m \cup {url} |-> IF j = url THEN entry ELSE m[j]]

\* lines 87-101: eviction, insertion, Unlock and the return, in one critical section.
RenderInsert(c) ==
    /\ rc[c].pc = "wlocked"
    /\ LET me == rc[c]
           entry == [rendered |-> me.rendered, timestamp |-> TimeNow]
       IN \E k \in (IF Full(cache) THEN Oldest(cache) ELSE {EmptyURL}) :
             /\ cache' = Put(IF Full(cache) THEN Delete(cache, k) ELSE cache, me.url, entry)
             /\ rc' = [rc EXCEPT ![c] = [me EXCEPT !.pc = "done", !.oldestKey = k,
                                             !.frame = me.rendered, !.ts = TimeNow]]
    /\ nsec' = nsec + 1
    /\ cacheMu' = [cacheMu EXCEPT !.w = {}]
    /\ UNCHANGED <<now, events, warm, tokenVars, mainVars>>

\* ClearCache, line 190: cacheMu.Lock()
ClearCall(c) ==
    /\ AtRest(c)
    /\ events < MaxEvents
    /\ events' = events + 1
    /\ rc' = [rc EXCEPT ![c] = [IdleCall EXCEPT !.pc = "clear", !.op = "clear"]]
    /\ UNCHANGED <<now, nsec, cache, cacheMu, warm, tokenVars, mainVars>>

ClearLock(c) ==
    /\ rc[c].pc = "clear"
    /\ LockFree(cacheMu)
    /\ cacheMu' = [cacheMu EXCEPT !.w = {c}]
    /\ rc' = [rc EXCEPT ![c].pc = "clearing"]
    /\ UNCHANGED <<now, nsec, cache, events, warm, tokenVars, mainVars>>

\* lines 191-192: the map is replaced and the lock released.
ClearCache(c) ==
    /\ rc[c].pc = "clearing"
    /\ cache' = <<>>
    /\ cacheMu' = [cacheMu EXCEPT !.w = {}]
    /\ rc' = [rc EXCEPT ![c].pc = "done"]
    /\ UNCHANGED <<now, nsec, events, warm, tokenVars, mainVars>>

\* Warm-up: one whole RenderFromURL call of goroutine c for the next unused
\* URL at the default size, answered 200 with an image, while no goroutine has
\* called yet: lines 53-101 run without another goroutine in between.
WarmRender(c) ==
    /\ \A d \in Sessions : rc[d] = IdleCall
    /\ events = 0
    /\ ~Full(cache)
    /\ \E url \in Fresh :
          cache' = Put(cache, url, [rendered |-> renderImage(url, DefaultDims[1], DefaultDims[2]),
                                    timestamp |-> TimeNow])
    /\ nsec' = nsec + 1
    /\ warm' = warm + 1
    /\ UNCHANGED <<now, cacheMu, rc, events, tokenVars, mainVars>>

\* The clock jumps by half a TTL or by a whole one.
CacheSteps == {cacheTTL \div 2, cacheTTL}
AdvanceCache(d) ==
    /\ events < MaxEvents
    /\ events' = events + 1
    /\ now' = now + d
    /\ UNCHANGED <<nsec, cacheVars, warm, tokenVars, mainVars>>

(***************************************************************************)
(* The Spotify client: the bearer token shared by every session, the       *)
(* refresh against the token endpoint, and the two calls of the Web API.   *)
(***************************************************************************)

\* The zero time.Time of a Client that never refreshed: before every instant.
ZeroTime == 0 - 1

\* What the token endpoint can answer: a status, and a body that is either not
\* JSON or a tokenResponse.  A JSON body without the fields decodes to the
\* zero values.
Garbage == [json |-> FALSE]
EmptyJSON == [json |-> TRUE, access_token |-> "", expires_in |-> 0]
AccessTokens == {"tokA", "tokB"}
ExpiresIns == {30, 90, 100}
TokenBodies ==
    {Garbage, EmptyJSON}
        \cup {[json |-> TRUE, access_token |-> a, expires_in |-> e] :
                 a \in AccessTokens, e \in ExpiresIns}
TokenResponses ==
    {[status |-> 400, body |-> Garbage], [status |-> 400, body |-> EmptyJSON]}
        \cup {[status |-> 200, body |-> b] : b \in TokenBodies}
NoTokenResp == [status |-> 0, body |-> Garbage]

\* What the Web API can answer.  The items of a body: name, album, artists.
ItemFull == [name |-> "Song", album |-> [name |-> "Album", images |-> <<1, 2>>],
             artists |-> <<"Ana", "Bo">>]
ItemBare == [name |-> "Tune", album |-> [name |-> "LP", images |-> <<>>],
             artists |-> <<>>]
NoItem == [none |-> TRUE]
CurrentResponses ==
    {[status |-> 204, body |-> Garbage],
     [status |-> 401, body |-> Garbage],
     [status |-> 200, body |-> Garbage],
     [status |-> 200, body |-> [json |-> TRUE, is_playing |-> FALSE, item |-> NoItem]],
     [status |-> 200, body |-> [json |-> TRUE, is_playing |-> TRUE, item |-> ItemFull]],
     [status |-> 200, body |-> [json |-> TRUE, is_playing |-> FALSE, item |-> ItemBare]]}
RecentResponses ==
    {[status |-> 204, body |-> Garbage],
     [status |-> 401, body |-> Garbage],
     [status |-> 200, body |-> Garbage],
     [status |-> 200, body |-> [json |-> TRUE, items |-> <<>>]],
     [status |-> 200, body |-> [json |-> TRUE, items |-> <<[track |-> ItemFull]>>]],
     [status |-> 200, body |-> [json |-> TRUE, items |-> <<[track |-> ItemBare], [track |-> ItemFull]>>]]}

\* spotify.Track, built from an item as lines 428-440 and 501-509 build it.
NoTrack == [none |-> TRUE]
TrackOf(item, playing) ==
    [Name |-> item.name,
     Artist |-> IF Len(item.artists) > 0 THEN item.artists[1] ELSE "",
     Album |-> item.album.name,
     ArtworkURL |-> IF Len(item.album.images) > 0 THEN item.album.images[1] ELSE EmptyURL,
     IsPlaying |-> playing]

\* The errors a fetch can end with, named by where they arise.
TokenErr == "failed to get valid token"
RequestErr == "request failed"
StatusErr == "spotify API error: "
StatusError(status) == StatusErr \o ToString(status)
JSONErr == "decode failed"
NoHeader == "no header"
NoApiResp == [status |-> 0, body |-> Garbage]

\* One activation of fetchTrack by goroutine c, and where it stands; resp is
\* the answer to the GET while its status has not been looked at.
IdleFetch ==
    [pc |-> "idle", call |-> "none", tokenResp |-> NoTokenResp, bearer |-> NoHeader,
     track |-> NoTrack, err |-> NoErr, gets |-> 0, path |-> "none",
     resp |-> NoApiResp]

Count(n) == IF n < MaxCount THEN n + 1 ELSE MaxCount

\* A goroutine runs fetchTrack with a Client configured: GetCurrentlyPlaying,
\* which starts with ensureValidToken.
FetchCall(c) ==
    /\ spotifyClient
    /\ fc[c].pc \in {"idle", "done"}
    /\ fc' = [fc EXCEPT ![c] = [IdleFetch EXCEPT !.pc = "ensure", !.call = "current"]]
    /\ evCalls' = Count(evCalls)
    /\ UNCHANGED <<now, cacheSpecVars, accessToken, tokenExpiry, mu, posts, allLong, mainVars>>

\* ensureValidToken: c.mu.RLock().
EnsureRLock(c) ==
    /\ fc[c].pc = "ensure"
    /\ RLockFree(mu)
    /\ mu' = [mu EXCEPT !.r = @ \cup {c}]
    /\ fc' = [fc EXCEPT ![c].pc = "ensure_r"]
    /\ UNCHANGED <<now, cacheSpecVars, accessToken, tokenExpiry, posts, evCalls, allLong, mainVars>>

\* valid := c.accessToken != "" && time.Now().Before(c.tokenExpiry)
ValidIgnoresExpiry(token, expiry, t) == token # ""
Valid(token, expiry, t) == token # "" /\ t < expiry

\* ensureValidToken: the test under the read lock, RUnlock, and either the
\* return of nil or the call of refreshAccessToken, which sends the POST.
EnsureTest(c) ==
    /\ fc[c].pc = "ensure_r"
    /\ mu' = [mu EXCEPT !.r = @ \ {c}]
    /\ IF Valid(accessToken, tokenExpiry, now)
         THEN /\ fc' = [fc EXCEPT ![c].pc = "header", ![c].path = "fast"]
              /\ posts' = posts
         ELSE /\ fc' = [fc EXCEPT ![c].pc = "post", ![c].path = "refresh"]
              /\ posts' = Count(posts)
    /\ UNCHANGED <<now, cacheSpecVars, accessToken, tokenExpiry, evCalls, allLong, mainVars>>

\* The Get* call whose ensureValidToken failed returns (nil, error), and
\* fetchTrack hands that on: trackMsg{nil, err}.
FetchFails(c, e) ==
    fc' = [fc EXCEPT ![c].pc = "done", ![c].track = NoTrack, ![c].err = e,
                     ![c].tokenResp = NoTokenResp]

\* refreshAccessToken goes on to the store only with status 200 and a body
\* that decodes.
RefreshOKAnyStatus(resp) == resp.body.json
RefreshOK(resp) == resp.status = 200 /\ resp.body.json

\* What json.Decode leaves in tokenResp.
DecodeToken(body) == IF body.json THEN body ELSE EmptyJSON

\* refreshAccessToken: the answer to the POST.
RefreshPost(c) ==
    /\ fc[c].pc = "post"
    /\ \/ /\ FetchFails(c, TokenErr)
          /\ allLong' = allLong
       \/ \E resp \in TokenResponses :
             IF RefreshOK(resp)
               THEN /\ fc' = [fc EXCEPT ![c].pc = "store", ![c].tokenResp = resp]
                    /\ allLong' = (allLong /\ DecodeToken(resp.body).expires_in >= 90)
               ELSE /\ FetchFails(c, TokenErr)
                    /\ allLong' = allLong
    /\ UNCHANGED <<now, cacheSpecVars, accessToken, tokenExpiry, mu, posts, evCalls, mainVars>>

\* refreshAccessToken: c.mu.Lock().
StoreLockNoWait(c) ==
    /\ fc[c].pc = "store"
    /\ mu' = [mu EXCEPT !.w = {c}]
    /\ fc' = [fc EXCEPT ![c].pc = "store_w"]
    /\ UNCHANGED <<now, cacheSpecVars, accessToken, tokenExpiry, posts, evCalls, allLong, mainVars>>
StoreLock(c) ==
    /\ fc[c].pc = "store"
    /\ LockFree(mu)
    /\ mu' = [mu EXCEPT !.w = {c}]
    /\ fc' = [fc EXCEPT ![c].pc = "store_w"]
    /\ UNCHANGED <<now, cacheSpecVars, accessToken, tokenExpiry, posts, evCalls, allLong, mainVars>>

\* time.Now().Add(time.Duration(tokenResp.ExpiresIn-60) * time.Second)
ExpiryWithoutUnit(t, expiresIn) == t + ((expiresIn - 60) \div 1000000000)
Expiry(t, expiresIn) == t + (expiresIn - 60)

\* refreshAccessToken: the two assignments, Unlock, return nil.
StoreTokenOnly(c) ==
    /\ fc[c].pc = "store_w"
    /\ accessToken' = DecodeToken(fc[c].tokenResp.body).access_token
    /\ tokenExpiry' = tokenExpiry
    /\ mu' = [mu EXCEPT !.w = @ \ {c}]
    /\ fc' = [fc EXCEPT ![c].pc = "header"]
    /\ UNCHANGED <<now, cacheSpecVars, posts, evCalls, allLong, mainVars>>
Store(c) ==
    /\ fc[c].pc = "store_w"
    /\ accessToken' = DecodeToken(fc[c].tokenResp.body).access_token
    /\ tokenExpiry' = Expiry(now, DecodeToken(fc[c].tokenResp.body).expires_in)
    /\ mu' = [mu EXCEPT !.w = @ \ {c}]
    /\ fc' = [fc EXCEPT ![c].pc = "header"]
    /\ UNCHANGED <<now, cacheSpecVars, posts, evCalls, allLong, mainVars>>

\* Get*: c.mu.RLock() before the Authorization header is set.
HeaderRLock(c) ==
    /\ fc[c].pc = "header"
    /\ RLockFree(mu)
    /\ mu' = [mu EXCEPT !.r = @ \cup {c}]
    /\ fc' = [fc EXCEPT ![c].pc = "header_r"]
    /\ UNCHANGED <<now, cacheSpecVars, accessToken, tokenExpiry, posts, evCalls, allLong, mainVars>>

\* Get*: the header takes the stored token, RUnlock, and the GET is sent.
HeaderReadNoToken(c) ==
    /\ fc[c].pc = "header_r"
    /\ mu' = [mu EXCEPT !.r = @ \ {c}]
    /\ fc' = [fc EXCEPT ![c].pc = "get", ![c].bearer = "", ![c].gets = @ + 1]
    /\ UNCHANGED <<now, cacheSpecVars, accessToken, tokenExpiry, posts, evCalls, allLong, mainVars>>
HeaderRead(c) ==
    /\ fc[c].pc = "header_r"
    /\ mu' = [mu EXCEPT !.r = @ \ {c}]
    /\ fc' = [fc EXCEPT ![c].pc = "get", ![c].bearer = accessToken, ![c].gets = @ + 1]
    /\ UNCHANGED <<now, cacheSpecVars, accessToken, tokenExpiry, posts, evCalls, allLong, mainVars>>

\* GetCurrentlyPlaying from the answer on, lines 406-443: (track, error), and
\* whether json.Decode ran on the body.
CurrentResult(resp) ==
    IF resp.status = 204 THEN [track |-> NoTrack, err |-> NoErr, decoded |-> FALSE]
    ELSE IF resp.status # 200
      THEN [track |-> NoTrack, err |-> StatusError(resp.status), decoded |-> FALSE]
    ELSE IF ~resp.body.json THEN [track |-> NoTrack, err |-> JSONErr, decoded |-> TRUE]
    ELSE IF resp.body.item = NoItem THEN [track |-> NoTrack, err |-> NoErr, decoded |-> TRUE]
    ELSE [track |-> TrackOf(resp.body.item, resp.body.is_playing), err |-> NoErr,
          decoded |-> TRUE]

\* GetRecentlyPlayed from the answer on, lines 479-512: (track, error), and
\* whether json.Decode ran on the body.
RecentResultAccepts204(resp) ==
    IF resp.status = 204 THEN [track |-> NoTrack, err |-> NoErr, decoded |-> FALSE]
    ELSE IF resp.status # 200
      THEN [track |-> NoTrack, err |-> StatusError(resp.status), decoded |-> FALSE]
    ELSE IF ~resp.body.json THEN [track |-> NoTrack, err |-> JSONErr, decoded |-> TRUE]
    ELSE IF Len(resp.body.items) = 0 THEN [track |-> NoTrack, err |-> NoErr, decoded |-> TRUE]
    ELSE [track |-> TrackOf(resp.body.items[1].track, FALSE), err |-> NoErr,
          decoded |-> TRUE]
RecentResult(resp) ==
    IF resp.status # 200
      THEN [track |-> NoTrack, err |-> StatusError(resp.status), decoded |-> FALSE]
    ELSE IF ~resp.body.json THEN [track |-> NoTrack, err |-> JSONErr, decoded |-> TRUE]
    ELSE IF Len(resp.body.items) = 0 THEN [track |-> NoTrack, err |-> NoErr, decoded |-> TRUE]
    ELSE [track |-> TrackOf(resp.body.items[1].track, FALSE), err |-> NoErr,
          decoded |-> TRUE]

\* The (track, error) pair a Get* call hands to its caller.
Returns(res) == [track |-> res.track, err |-> res.err]

\* fetchTrack after a Get* call returned res: the fallback to
\* GetRecentlyPlayed when GetCurrentlyPlaying gave (nil, nil), else the
\* message, a track of the fallback with IsPlaying forced to false.
FetchFallsBackOnError(c, res) ==
    IF fc[c].call = "current" /\ res.track = NoTrack
      THEN /\ fc' = [fc EXCEPT ![c].pc = "ensure", ![c].call = "recent",
                               ![c].tokenResp = NoTokenResp, ![c].bearer = NoHeader,
                               ![c].path = "none", ![c].resp = NoApiResp]
           /\ evCalls' = Count(evCalls)
      ELSE /\ fc' = [fc EXCEPT ![c].pc = "done", ![c].err = res.err,
                       ![c].tokenResp = NoTokenResp, ![c].bearer = NoHeader,
                       ![c].resp = NoApiResp,
                       ![c].track = IF fc[c].call = "recent" /\ res.track # NoTrack
                                      THEN [res.track EXCEPT !.IsPlaying = FALSE]
                                      ELSE res.track]
           /\ evCalls' = evCalls
FetchGoesOn(c, res) ==
    IF fc[c].call = "current" /\ res.track = NoTrack /\ res.err = NoErr
      THEN /\ fc' = [fc EXCEPT ![c].pc = "ensure", ![c].call = "recent",
                               ![c].tokenResp = NoTokenResp, ![c].bearer = NoHeader,
                               ![c].path = "none", ![c].resp = NoApiResp]
           /\ evCalls' = Count(evCalls)
      ELSE /\ fc' = [fc EXCEPT ![c].pc = "done", ![c].err = res.err,
                       ![c].tokenResp = NoTokenResp, ![c].bearer = NoHeader,
                       ![c].resp = NoApiResp,
                       ![c].track = IF fc[c].call = "recent" /\ res.track # NoTrack
                                      THEN [res.track EXCEPT !.IsPlaying = FALSE]
                                      ELSE res.track]
           /\ evCalls' = evCalls

\* Get*: c.httpClient.Do(req) returns an error, or the answer.
ApiGet(c) ==
    /\ fc[c].pc = "get"
    /\ \/ FetchGoesOn(c, [track |-> NoTrack, err |-> RequestErr, decoded |-> FALSE])
       \/ /\ \E resp \in (IF fc[c].call = "current" THEN CurrentResponses
                                                     ELSE RecentResponses) :
                fc' = [fc EXCEPT ![c].pc = "answered", ![c].resp = resp,
                                 ![c].tokenResp = NoTokenResp, ![c].bearer = NoHeader]
          /\ evCalls' = evCalls
    /\ UNCHANGED <<now, cacheSpecVars, accessToken, tokenExpiry, mu, posts, allLong, mainVars>>

\* Get*: the status is looked at, the body decoded, the track built and
\* returned to fetchTrack.
ApiResult(c) ==
    /\ fc[c].pc = "answered"
    /\ FetchGoesOn(c, IF fc[c].call = "current" THEN CurrentResult(fc[c].resp)
                                                ELSE RecentResult(fc[c].resp))
    /\ UNCHANGED <<now, cacheSpecVars, accessToken, tokenExpiry, mu, posts, allLong, mainVars>>

\* Time passes.
TokenStep == 30
AdvanceToken ==
    /\ now + TokenStep <= MaxNow
    /\ now' = now + TokenStep
    /\ UNCHANGED <<cacheSpecVars, tokenVars, mainVars>>


(***************************************************************************)
(* The sessions: one Bubble Tea program per SSH connection, its model, the *)
(* commands it has running, its one-shot timer and the messages waiting    *)
(* for Update.                                                             *)
(***************************************************************************)

\* tickEvery(10*time.Second)
TickInterval == 10

\* The window sizes a pty or a resize can report.
WindowSizes == {<<80, 24>>, <<120, 40>>}

\* The keys a user can press: the three that quit, and one that does not.
QuitKeys == {"ctrl+c", "q", "enter"}
Keys == QuitKeys \cup {"x"}

TickMsg == [type |-> "tickMsg"]
TrackMsg(track, err) == [type |-> "trackMsg", track |-> track, err |-> err]

NoTimer == 0 - 1
NoSession ==
    [status |-> "none", width |-> 0, height |-> 0, currentTrack |-> NoTrack,
     timer |-> NoTimer, cmds |-> 0, inbox |-> <<>>, fetches |-> 0, ticks |-> 0]

Running(s) == sess[s].status = "running"

\* What one ensureValidToken call can do to bearer and expiry at time t when
\* no other goroutine runs meanwhile, and whether it returns nil.
EnsureOutcomes(token, expiry, t) ==
    IF Valid(token, expiry, t)
      THEN {[ok |-> TRUE, token |-> token, expiry |-> expiry]}
      ELSE {[ok |-> FALSE, token |-> token, expiry |-> expiry]}
             \cup {[ok |-> TRUE,
                    token |-> DecodeToken(r.body).access_token,
                    expiry |-> Expiry(t, DecodeToken(r.body).expires_in)] :
                      r \in {q \in TokenResponses : RefreshOK(q)}}

\* What the GET of a Get* call can give.
CurrentOutcomes == {Returns(CurrentResult(r)) : r \in CurrentResponses}
RecentOutcomes == {Returns(RecentResult(r)) : r \in RecentResponses}
GetOutcomes(call) ==
    {[track |-> NoTrack, err |-> RequestErr]}
        \cup (IF call = "current" THEN CurrentOutcomes ELSE RecentOutcomes)

\* One Get* call, run without another goroutine in between.
CallOutcomes(call, token, expiry, t) ==
    UNION {IF e.ok THEN {[res |-> g, bs |-> e] : g \in GetOutcomes(call)}
                   ELSE {[res |-> [track |-> NoTrack, err |-> TokenErr], bs |-> e]} :
              e \in EnsureOutcomes(token, expiry, t)}

\* if track != nil { track.IsPlaying = false }
NotPlaying(res) ==
    IF res.track # NoTrack THEN [res EXCEPT !.track = [@ EXCEPT !.IsPlaying = FALSE]]
                           ELSE res

\* fetchTrack from call to return, run without another goroutine in between:
\* the message, and the bearer and expiry it leaves.
FetchOutcomes(token, expiry, t) ==
    UNION {IF o.res = [track |-> NoTrack, err |-> NoErr]
             THEN {[msg |-> NotPlaying(p.res), token |-> p.bs.token, expiry |-> p.bs.expiry] :
                       p \in CallOutcomes("recent", o.bs.token, o.bs.expiry, t)}
             ELSE {[msg |-> o.res, token |-> o.bs.token, expiry |-> o.bs.expiry]} :
              o \in CallOutcomes("current", token, expiry, t)}

\* teaHandler and the start of the program: the model takes the size of the
\* pty, Init hands out fetchTrack and the 10-second timer.
Connect(s, width, height) ==
    /\ sess[s].status = "none"
    /\ sess' = [sess EXCEPT ![s] =
                  [NoSession EXCEPT !.status = "running", !.width = width, !.height = height,
                                    !.cmds = 1, !.fetches = 1, !.timer = now + TickInterval]]
    /\ UNCHANGED <<now, cacheSpecVars, tokenVars, env, spotifyClient, screen>>

\* The runtime hands a message to the program if it still runs.
Deliver(s, msg) == IF Running(s) THEN Append(sess[s].inbox, msg) ELSE sess[s].inbox

\* A fetchTrack command of session s runs and returns its message, which
\* waits for Update (at most MaxInbox messages of a session wait).  The steps
\* of the call interleave with other goroutines under SpecToken, which also
\* keeps the counts of POSTs and calls.
FetchTrack(s) ==
    /\ sess[s].cmds > 0
    /\ Len(sess[s].inbox) < MaxInbox
    /\ IF ~spotifyClient
         THEN /\ sess' = [sess EXCEPT ![s].cmds = @ - 1,
                                      ![s].inbox = Deliver(s, TrackMsg(NoTrack, NoErr))]
              /\ UNCHANGED <<accessToken, tokenExpiry>>
         ELSE \E o \in FetchOutcomes(accessToken, tokenExpiry, now) :
                 /\ sess' = [sess EXCEPT ![s].cmds = @ - 1,
                                         ![s].inbox = Deliver(s, TrackMsg(o.msg.track, o.msg.err))]
                 /\ accessToken' = o.token
                 /\ tokenExpiry' = o.expiry
    /\ UNCHANGED <<now, cacheSpecVars, mu, fc, posts, evCalls, allLong, env, spotifyClient, screen>>

\* A fetchTrack command of session s starts on a goroutine of its own: with
\* no Client it returns trackMsg{nil, nil} at once, line 52, else it calls
\* GetCurrentlyPlaying.  Its steps are those of the client, one at a time.
FetchStart(s) ==
    /\ sess[s].cmds > 0
    /\ fc[s].pc = "idle"
    /\ IF spotifyClient
         THEN FetchCall(s)
         ELSE /\ fc' = [fc EXCEPT ![s].pc = "done"]
              /\ UNCHANGED <<now, cacheSpecVars, accessToken, tokenExpiry, mu, posts,
                             evCalls, allLong, mainVars>>

\* The command returns: the runtime sends trackMsg{track, err} to the program.
FetchReturn(s) ==
    /\ sess[s].cmds > 0
    /\ fc[s].pc = "done"
    /\ Len(sess[s].inbox) < MaxInbox
    /\ sess' = [sess EXCEPT ![s].cmds = @ - 1,
                            ![s].inbox = Deliver(s, TrackMsg(fc[s].track, fc[s].err))]
    /\ fc' = [fc EXCEPT ![s] = IdleFetch]
    /\ UNCHANGED <<now, cacheSpecVars, accessToken, tokenExpiry, mu, posts, evCalls,
                   allLong, env, spotifyClient, screen>>

\* The timer of tea.Tick fires, once, and its message waits for Update.
TimerFires(s) ==
    /\ Running(s)
    /\ sess[s].timer # NoTimer
    /\ now >= sess[s].timer
    /\ Len(sess[s].inbox) < MaxInbox
    /\ sess' = [sess EXCEPT ![s].timer = NoTimer, ![s].inbox = Append(@, TickMsg)]
    /\ UNCHANGED <<now, cacheSpecVars, tokenVars, env, spotifyClient, screen>>

\* The messages of goroutines reach Update in no fixed order.
Without(q, i) == [j \in 1..(Len(q) - 1) |-> IF j < i THEN q[j] ELSE q[j + 1]]

\* Update, case tea.WindowSizeMsg.
UpdateWindowSize(s, width, height) ==
    /\ Running(s)
    /\ sess' = [sess EXCEPT ![s].width = width, ![s].height = height]
    /\ UNCHANGED <<now, cacheSpecVars, tokenVars, env, spotifyClient, screen>>

\* Update, case trackMsg.
UpdateTrackDropsOnError(s, i) ==
    /\ Running(s)
    /\ i \in DOMAIN sess[s].inbox
    /\ sess[s].inbox[i].type = "trackMsg"
    /\ LET msg == sess[s].inbox[i] IN
         sess' = [sess EXCEPT ![s].inbox = Without(@, i),
                              ![s].currentTrack =
                                  IF msg.err # NoErr THEN NoTrack
                                  ELSE IF msg.track # NoTrack THEN msg.track ELSE @]
    /\ UNCHANGED <<now, cacheSpecVars, tokenVars, env, spotifyClient, screen>>
UpdateTrackTakesNil(s, i) ==
    /\ Running(s)
    /\ i \in DOMAIN sess[s].inbox
    /\ sess[s].inbox[i].type = "trackMsg"
    /\ LET msg == sess[s].inbox[i] IN
         sess' = [sess EXCEPT ![s].inbox = Without(@, i),
                              ![s].currentTrack = IF msg.err = NoErr THEN msg.track ELSE @]
    /\ UNCHANGED <<now, cacheSpecVars, tokenVars, env, spotifyClient, screen>>
UpdateTrack(s, i) ==
    /\ Running(s)
    /\ i \in DOMAIN sess[s].inbox
    /\ sess[s].inbox[i].type = "trackMsg"
    /\ LET msg == sess[s].inbox[i] IN
         sess' = [sess EXCEPT ![s].inbox = Without(@, i),
                              ![s].currentTrack =
                                  IF msg.err = NoErr /\ msg.track # NoTrack THEN msg.track ELSE @]
    /\ UNCHANGED <<now, cacheSpecVars, tokenVars, env, spotifyClient, screen>>

\* Update, case tickMsg: the command returned is fetchTrack alone.
UpdateTick(s, i) ==
    /\ Running(s)
    /\ i \in DOMAIN sess[s].inbox
    /\ sess[s].inbox[i].type = "tickMsg"
    /\ sess' = [sess EXCEPT ![s].inbox = Without(@, i),
                            ![s].cmds = @ + 1,
                            ![s].fetches = Count(@),
                            ![s].ticks = Count(@)]
    /\ UNCHANGED <<now, cacheSpecVars, tokenVars, env, spotifyClient, screen>>

\* Update, case tea.KeyMsg: tea.Quit on a quit key, nothing otherwise.  The
\* program ends; its commands still running drop their messages.
UpdateKey(s, key) ==
    /\ Running(s)
    /\ sess' = IF key \in QuitKeys
                 THEN [sess EXCEPT ![s].status = "quit", ![s].inbox = <<>>,
                                   ![s].timer = NoTimer]
                 ELSE sess
    /\ UNCHANGED <<now, cacheSpecVars, tokenVars, env, spotifyClient, screen>>

(***************************************************************************)
(* View: what the program draws after Update.  The runtime calls Update    *)
(* and View one after the other on the same goroutine.                     *)
(***************************************************************************)

\* Go strings of the widget as byte sequences: "..." is three bytes 0x2E.
Dots == <<46, 46, 46>>

\* lines 189-202: if len(s) > 26 { s = s[:23] + "..." }, len and the slice
\* counting bytes.
Truncate(s) == IF Len(s) > 26 THEN SubSeq(s, 1, 23) \o Dots ELSE s

\* The strings View can return, by their parts.
NoScreen == [kind |-> "none"]
Loading == [kind |-> "loading"]
EmptyWidget == [kind |-> "empty"]
Widget(art, track) ==
    [kind |-> "track", art |-> art, trackName |-> Truncate(track.Name),
     artist |-> Truncate(track.Artist), album |-> Truncate(track.Album)]

\* The event loop of session s is between two calls: not inside View.
Serial(s) == rc[s].pc = "idle"

\* View, lines 141-148, and renderSpotifyWidget up to line 182: the loading
\* text, the empty widget, or the call of albumart.RenderFromURL, made on the
\* goroutine of the event loop.
View(s) ==
    /\ Running(s)
    /\ Serial(s)
    /\ IF sess[s].width = 0 \/ sess[s].height = 0
         THEN /\ screen' = [screen EXCEPT ![s] = Loading]
              /\ UNCHANGED <<now, cacheSpecVars, tokenVars, env, spotifyClient, sess>>
         ELSE IF sess[s].currentTrack = NoTrack
           THEN /\ screen' = [screen EXCEPT ![s] = EmptyWidget]
                /\ UNCHANGED <<now, cacheSpecVars, tokenVars, env, spotifyClient, sess>>
           ELSE RenderCall(s, sess[s].currentTrack.ArtworkURL, DefaultDims[1], DefaultDims[2])

\* renderSpotifyWidget, lines 182-216: RenderFromURL has returned, its error
\* is dropped, the three texts are cut and the widget is put together.
ViewReturn(s) ==
    /\ Running(s)
    /\ Returned(s)
    /\ screen' = [screen EXCEPT ![s] = Widget(rc[s].frame, sess[s].currentTrack)]
    /\ rc' = [rc EXCEPT ![s] = IdleCall]
    /\ UNCHANGED <<now, nsec, cache, cacheMu, events, warm, tokenVars, env, spotifyClient, sess>>

\* os.Getenv: each variable is unset (empty) or set.
Credentials == {"", "set"}
Envs == [clientID : Credentials, clientSecret : Credentials, refreshToken : Credentials]
FullEnv == [clientID |-> "set", clientSecret |-> "set", refreshToken |-> "set"]

\* main, line 233: the Client is created only if the three credentials are set.
ConfiguredByAny(e) == e.clientID # "" \/ e.clientSecret # "" \/ e.refreshToken # ""
Configured(e) == e.clientID # "" /\ e.clientSecret # "" /\ e.refreshToken # ""

InitWith(e) ==
    /\ now = 0
    /\ nsec = 0
    /\ cache = <<>>
    /\ cacheMu = [w |-> {}, r |-> {}]
    /\ rc = [c \in Sessions |-> IdleCall]
    /\ events = 0
    /\ warm = 0
    /\ accessToken = ""
    /\ tokenExpiry = ZeroTime
    /\ mu = [w |-> {}, r |-> {}]
    /\ fc = [c \in Sessions |-> IdleFetch]
    /\ posts = 0
    /\ evCalls = 0
    /\ allLong = TRUE
    /\ env = e
    /\ spotifyClient = Configured(e)
    /\ sess = [s \in Sessions |-> NoSession]
    /\ screen = [s \in Sessions |-> NoScreen]

Init == \E e \in Envs : InitWith(e)

NextCache ==
    \/ \E c \in Sessions : \E url \in Requestable(c), d \in DimsAllowed :
          RenderCall(c, url, d[1], d[2])
    \/ \E c \in Sessions : RenderRLock(c)
    \/ \E c \in Sessions : RenderLookup(c)
    \/ \E c \in Sessions : RenderGet(c)
    \/ \E c \in Sessions : RenderDecode(c)
    \/ \E c \in Sessions : RenderLock(c)
    \/ \E c \in Sessions : RenderInsert(c)
    \/ \E c \in Sessions : WarmRender(c)
    \/ \E c \in Sessions : ClearCall(c)
    \/ \E c \in Sessions : ClearLock(c)
    \/ \E c \in Sessions : ClearCache(c)
    \/ \E d \in CacheSteps : AdvanceCache(d)

SpecCache == InitWith(FullEnv) /\ [][NextCache]_vars

\* RenderFromURL("", cols, rows) alone, over a range of sizes: one call of a
\* run has a size other than the widget's.
NextPlaceholder ==
    \E c \in Sessions, cols \in 0..MaxCols, rows \in 0..MaxRows :
        /\ events < MaxEvents \/ <<cols, rows>> = DefaultDims
        /\ RenderCall(c, EmptyURL, cols, rows)

SpecPlaceholder == InitWith(FullEnv) /\ [][NextPlaceholder]_vars

NextToken ==
    \/ \E c \in Sessions : FetchCall(c)
    \/ \E c \in Sessions : EnsureRLock(c)
    \/ \E c \in Sessions : EnsureTest(c)
    \/ \E c \in Sessions : RefreshPost(c)
    \/ \E c \in Sessions : StoreLock(c)
    \/ \E c \in Sessions : Store(c)
    \/ \E c \in Sessions : HeaderRLock(c)
    \/ \E c \in Sessions : HeaderRead(c)
    \/ \E c \in Sessions : ApiGet(c)
    \/ \E c \in Sessions : ApiResult(c)
    \/ AdvanceToken

SpecToken == InitWith(FullEnv) /\ [][NextToken]_vars

Next ==
    \/ \E s \in Sessions, d \in WindowSizes : Connect(s, d[1], d[2])
    \/ \E s \in Sessions : FetchTrack(s)
    \/ \E s \in Sessions : TimerFires(s)
    \/ \E s \in Sessions, d \in WindowSizes : UpdateWindowSize(s, d[1], d[2])
    \/ \E s \in Sessions, i \in 1..MaxInbox : UpdateTrack(s, i)
    \/ \E s \in Sessions, i \in 1..MaxInbox : UpdateTick(s, i)
    \/ \E s \in Sessions, key \in Keys : UpdateKey(s, key)
    \/ AdvanceToken

Spec == Init /\ [][Next]_vars

\* The sessions from the connection to the first track message, with the
\* steps of each fetchTrack command interleaved.
NextFetch ==
    \/ \E s \in Sessions, d \in WindowSizes : Connect(s, d[1], d[2])
    \/ \E s \in Sessions : FetchStart(s)
    \/ \E s \in Sessions : EnsureRLock(s)
    \/ \E s \in Sessions : EnsureTest(s)
    \/ \E s \in Sessions : RefreshPost(s)
    \/ \E s \in Sessions : StoreLock(s)
    \/ \E s \in Sessions : Store(s)
    \/ \E s \in Sessions : HeaderRLock(s)
    \/ \E s \in Sessions : HeaderRead(s)
    \/ \E s \in Sessions : ApiGet(s)
    \/ \E s \in Sessions : ApiResult(s)
    \/ \E s \in Sessions : FetchReturn(s)
    \/ \E s \in Sessions, i \in 1..MaxInbox : UpdateTrack(s, i)

SpecFetch == Init /\ [][NextFetch]_vars

\* The sessions with View: Update runs only between two calls of View, and
\* the steps of RenderFromURL are steps of the View that called it.
NextView ==
    \/ \E s \in Sessions, d \in WindowSizes : Connect(s, d[1], d[2])
    \/ \E s \in Sessions : FetchTrack(s)
    \/ \E s \in Sessions, d \in WindowSizes : Serial(s) /\ UpdateWindowSize(s, d[1], d[2])
    \/ \E s \in Sessions, i \in 1..MaxInbox : Serial(s) /\ UpdateTrack(s, i)
    \/ \E s \in Sessions, key \in Keys : Serial(s) /\ UpdateKey(s, key)
    \/ \E s \in Sessions : View(s)
    \/ \E s \in Sessions : RenderRLock(s)
    \/ \E s \in Sessions : RenderLookup(s)
    \/ \E s \in Sessions : RenderGet(s)
    \/ \E s \in Sessions : RenderDecode(s)
    \/ \E s \in Sessions : RenderLock(s)
    \/ \E s \in Sessions : RenderInsert(s)
    \/ \E s \in Sessions : ViewReturn(s)

SpecView == InitWith(FullEnv) /\ [][NextView]_vars

\* Both packages at once.  A goroutine is either an event loop, whose View
\* calls the renderer (and, here, ClearCache), or a command, which calls the
\* client: it makes its first call into one package and stays with it.  The
\* clock stands still and the calls have the widget's size.
NextLocks ==
    \/ \E c \in Sessions : \E url \in Requestable(c) :
          fc[c] = IdleFetch /\ RenderCall(c, url, DefaultDims[1], DefaultDims[2])
    \/ \E c \in Sessions : RenderRLock(c)
    \/ \E c \in Sessions : RenderLookup(c)
    \/ \E c \in Sessions : RenderGet(c)
    \/ \E c \in Sessions : RenderDecode(c)
    \/ \E c \in Sessions : RenderLock(c)
    \/ \E c \in Sessions : RenderInsert(c)
    \/ \E c \in Sessions : fc[c] = IdleFetch /\ ClearCall(c)
    \/ \E c \in Sessions : ClearLock(c)
    \/ \E c \in Sessions : ClearCache(c)
    \/ \E c \in Sessions : rc[c] = IdleCall /\ FetchCall(c)
    \/ \E c \in Sessions : EnsureRLock(c)
    \/ \E c \in Sessions : EnsureTest(c)
    \/ \E c \in Sessions : RefreshPost(c)
    \/ \E c \in Sessions : StoreLock(c)
    \/ \E c \in Sessions : Store(c)
    \/ \E c \in Sessions : HeaderRLock(c)
    \/ \E c \in Sessions : HeaderRead(c)
    \/ \E c \in Sessions : ApiGet(c)
    \/ \E c \in Sessions : ApiResult(c)

SpecLocks == InitWith(FullEnv) /\ [][NextLocks]_vars

\* Names the API can answer with, as UTF-8 bytes: "Song", 26, 27 and 30 ASCII
\* letters, and 30 characters of which the 23rd is a two-byte one (0xC3 0xA3).
Letters(n) == [i \in 1..n |-> 96 + i]
Accented == [i \in 1..31 |-> IF i = 23 THEN 195 ELSE IF i = 24 THEN 163 ELSE 96 + i]
WidgetNames == {<<83, 111, 110, 103>>, Letters(26), Letters(27), Letters(30), Accented}
WidgetTracks ==
    {[Name |-> n, Artist |-> a, Album |-> b, ArtworkURL |-> EmptyURL, IsPlaying |-> TRUE] :
        n \in WidgetNames, a \in WidgetNames, b \in WidgetNames}

\* A session that has taken a track from its first message.
Displaying(track) ==
    [NoSession EXCEPT !.status = "running", !.width = 80, !.height = 24,
                      !.currentTrack = track, !.fetches = 1]

\* The widget alone: every session displays some track and View draws it.
InitWidget ==
    /\ now = 0
    /\ nsec = 0
    /\ cache = <<>>
    /\ cacheMu = [w |-> {}, r |-> {}]
    /\ rc = [c \in Sessions |-> IdleCall]
    /\ events = 0
    /\ warm = 0
    /\ accessToken = "tokA"
    /\ tokenExpiry = 30
    /\ mu = [w |-> {}, r |-> {}]
    /\ fc = [c \in Sessions |-> IdleFetch]
    /\ posts = 1
    /\ evCalls = 1
    /\ allLong = TRUE
    /\ env = FullEnv
    /\ spotifyClient = TRUE
    /\ \E track \in WidgetTracks : sess = [s \in Sessions |-> Displaying(track)]
    /\ screen = [s \in Sessions |-> NoScreen]

NextWidget ==
    \/ \E s \in Sessions : View(s)
    \/ \E s \in Sessions : ViewReturn(s)

SpecWidget == InitWidget /\ [][NextWidget]_vars

(***************************************************************************)
(* Claims about the render cache, checked under SpecCache.                 *)
(***************************************************************************)
Size == Cardinality(DOMAIN cache)

\* The step in which goroutine c leaves the critical section of lines 85-99.
Inserts(c) == rc[c].pc = "wlocked" /\ rc'[c].pc = "done"

\* C2: the render cache never holds more than 10 entries, whatever the
\* interleaving of RenderFromURL and ClearCache calls; and an insertion that
\* finds 10 entries evicts one of them first, in the same critical section
\* (the inserting goroutine holds the write lock and nobody else holds it).
C2_CacheBounded ==
    /\ [](Size <= cacheSize)
    /\ [][\A c \in Sessions :
            (Inserts(c) /\ Size = cacheSize) =>
                /\ cacheMu = [w |-> {c}, r |-> {}]
                /\ rc'[c].oldestKey \in DOMAIN cache
                /\ Cardinality(DOMAIN cache') <= cacheSize]_vars

\* C2 witness: a full cache, and a goroutine back from an insertion that evicted.
C2_Witness ==
    /\ Size = cacheSize
    /\ \E c \in Sessions : Returned(c) /\ rc[c].oldestKey # EmptyURL

\* C8 as stated: a goroutine calls twice with the same URL and size, the first
\* call misses and succeeds, the second looks the URL up less than 5 minutes
\* after the entry was inserted: then the second call returns the first
\* call's string and performs no GET.
C8_Original ==
    \A c \in Sessions :
        (Returned(c) /\ rc[c].prev.ok /\ rc[c].early) =>
            (rc[c].frame = rc[c].prev.frame /\ ~rc[c].got)

\* C8 amended: the same, provided the second call's lookup finds the entry the
\* first call inserted, less than 5 minutes old (not evicted, cleared or
\* overwritten by a concurrent miss in between).
C8_MissThenHit ==
    \A c \in Sessions :
        (Returned(c) /\ rc[c].prev.ok /\ rc[c].intact) =>
            (rc[c].frame = rc[c].prev.frame /\ ~rc[c].got /\ rc[c].err = NoErr)

\* C8 witness: a second call came back from a lookup that found the first call's entry.
C8_Witness ==
    \E c \in Sessions : Returned(c) /\ rc[c].prev.ok /\ rc[c].intact /\ rc[c].url # EmptyURL

\* C9: an insertion of a URL that is not a key into a cache of 10 entries
\* removes exactly one entry, one that no other entry is older than, and leaves
\* the other 9 with frame and timestamp unchanged; after U1..U10 rendered in
\* order and then U11, the keys are U2..U11.
C9_EvictsOldestOnly ==
    /\ [][\A c \in Sessions :
            (Inserts(c) /\ Size = cacheSize /\ rc[c].url \notin DOMAIN cache) =>
                \E k \in DOMAIN cache :
                    /\ \A j \in DOMAIN cache : ~Before(cache[j].timestamp, cache[k].timestamp)
                    /\ DOMAIN cache' = (DOMAIN cache \ {k}) \cup {rc[c].url}
                    /\ \A j \in DOMAIN cache \ {k} : cache'[j] = cache[j]]_vars
    /\ [](\A c \in Sessions :
            (/\ Returned(c) /\ rc[c].url = cacheSize + 1
             /\ rc[c].ts = [t |-> 0, n |-> cacheSize]
             /\ warm = cacheSize /\ nsec = cacheSize + 1 /\ events = 0)
            => DOMAIN cache = 2..(cacheSize + 1))

\* C9 witness: U1..U10 were rendered in order and the render of U11 has returned.
C9_Witness ==
    \E c \in Sessions :
        /\ Returned(c) /\ rc[c].url = cacheSize + 1 /\ rc[c].oldestKey = 1
        /\ warm = cacheSize /\ nsec = cacheSize + 1 /\ events = 0

\* C10 as stated: a call whose GET was answered with status 500 returns the
\* placeholder of its size and creates no cache entry.
C10_PlaceholderOn500 ==
    \A c \in Sessions :
        (Returned(c) /\ rc[c].resp.status = 500) =>
            /\ rc[c].frame = renderPlaceholder(rc[c].width, rc[c].height)
            /\ rc[c].ts = NoTime

(***************************************************************************)
(* Claims about the Spotify client, checked under SpecToken.               *)
(***************************************************************************)

\* The step in which goroutine c's ensureValidToken returns nil: from the
\* test that found the token valid, or from the store of a refresh.
ReturnsNil(c) == fc[c].pc \in {"ensure_r", "store_w"} /\ fc'[c].pc = "header"

\* Goroutine c is past an ensureValidToken that returned nil.
Passed(c) == fc[c].pc \in {"header", "header_r", "get"}

\* C3 as stated, read in its favour: every token response carried a token and
\* expires_in >= 90, and the caller that got nil looks at the stored token
\* next, under the read lock, to set its header: the bearer is non-empty and
\* the stored expiry is strictly after the current time.
C3_Original ==
    \A c \in Sessions :
        (fc[c].pc = "header_r" /\ allLong) =>
            (accessToken # "" /\ now < tokenExpiry)

\* C3 amended: there are never more token POSTs than ensureValidToken calls,
\* a caller gets nil only after at least one POST, and at the instant its
\* ensureValidToken returns nil (the test of the fast path, or the store of a
\* response with a token and expires_in > 60) the stored bearer is non-empty
\* and the stored expiry is strictly after the current time.
C3_CredentialReuse ==
    /\ [](posts <= evCalls)
    /\ [](\A c \in Sessions : Passed(c) => posts >= 1)
    /\ [][\A c \in Sessions :
            (/\ ReturnsNil(c)
             /\ fc[c].pc = "store_w" =>
                   /\ DecodeToken(fc[c].tokenResp.body).access_token # ""
                   /\ DecodeToken(fc[c].tokenResp.body).expires_in > 60)
            => (accessToken' # "" /\ now' < tokenExpiry')]_vars

\* C3 witness: both goroutines started from the empty token, each sent a POST,
\* and both are back from ensureValidToken with a token that is still valid.
C3_Witness ==
    /\ posts = NumSessions
    /\ \A c \in Sessions :
          fc[c].pc = "header" /\ fc[c].call = "current" /\ fc[c].path = "refresh"
    /\ Valid(accessToken, tokenExpiry, now)

\* C4 as stated, with every token response carrying expires_in >= 90: in every
\* reachable state the stored bearer is empty or the current time is strictly
\* before the stored expiry.
C4_Original == allLong => (accessToken = "" \/ now < tokenExpiry)

\* C4 amended: a stored bearer outlives its expiry as time passes, but
\* ensureValidToken never accepts it then: the fast path returns only while
\* the bearer is non-empty and the current time is strictly before the stored
\* expiry, and a test that finds anything else sends a POST; the expiry is
\* the zero time exactly as long as nothing was stored.
C4_StaleNeverAccepted ==
    /\ [][\A c \in Sessions :
            (fc[c].pc = "ensure_r" /\ fc'[c].pc = "header") =>
                (accessToken # "" /\ now < tokenExpiry)]_vars
    /\ [][\A c \in Sessions :
            (fc[c].pc = "ensure_r" /\ ~(accessToken # "" /\ now < tokenExpiry)) =>
                (fc'[c].pc \in {"ensure_r", "post"})]_vars
    /\ [](tokenExpiry = ZeroTime => accessToken = "")

\* C4 witness: one goroutine is back from the fast path, time has passed, the
\* bearer is now stale and the other goroutine's test has sent a POST.
C4_Witness ==
    /\ accessToken # "" /\ now >= tokenExpiry
    /\ \E c, d \in Sessions :
          /\ fc[c].pc = "header" /\ fc[c].path = "fast"
          /\ fc[d].pc = "post"

\* C5 as stated: in the step in which ensureValidToken returns nil, by either
\* path, the stored expiry is at least 30 seconds after the current time,
\* given that every token response carried expires_in >= 90.
C5_Original ==
    [][\A c \in Sessions :
         (ReturnsNil(c) /\ allLong') => tokenExpiry' - now' >= 30]_vars

\* C5 amended: when ensureValidToken returns nil through the refresh path,
\* having stored a response with expires_in >= 90, the stored expiry is at
\* least 30 seconds after the current time; through the fast path the stored
\* expiry is strictly after the current time, by no fixed margin.
C5_MarginOnRefresh ==
    /\ [][\A c \in Sessions :
            (/\ ReturnsNil(c) /\ fc[c].pc = "store_w"
             /\ DecodeToken(fc[c].tokenResp.body).expires_in >= 90)
            => tokenExpiry' - now' >= 30]_vars
    /\ [][\A c \in Sessions :
            (ReturnsNil(c) /\ fc[c].pc = "ensure_r") => tokenExpiry' - now' > 0]_vars

\* C5 witness: a goroutine is back from a refresh that stored expires_in = 90,
\* and the stored expiry is exactly 30 seconds ahead.
C5_Witness ==
    \E c \in Sessions :
        /\ fc[c].pc = "header" /\ fc[c].path = "refresh"
        /\ fc[c].tokenResp.body = [json |-> TRUE, access_token |-> "tokA", expires_in |-> 90]
        /\ allLong
        /\ tokenExpiry - now = 30

C7_FailedRefreshKeepsState ==
    /\ [][\A c \in Sessions :
            (fc[c].pc = "post" /\ fc'[c].pc \notin {"post", "store"}) =>
                /\ fc'[c].pc = "done"
                /\ fc'[c].err = TokenErr /\ fc'[c].track = NoTrack
                /\ fc'[c].gets = fc[c].gets
                /\ accessToken' = accessToken /\ tokenExpiry' = tokenExpiry]_vars
    /\ [](\A c \in Sessions :
            (fc[c].pc = "done" /\ fc[c].err = TokenErr) =>
                fc[c].gets = (IF fc[c].call = "recent" THEN 1 ELSE 0))
    /\ [](\A c \in Sessions :
            fc[c].pc \in {"store", "store_w"} =>
                (fc[c].tokenResp.status = 200 /\ fc[c].tokenResp.body.json))
    /\ [][(accessToken' # accessToken \/ tokenExpiry' # tokenExpiry) =>
            \E c \in Sessions :
                /\ fc[c].pc = "store_w"
                /\ fc[c].tokenResp.status = 200 /\ fc[c].tokenResp.body.json]_vars

\* C7 witness: GetRecentlyPlayed's refresh failed after GetCurrentlyPlaying
\* had gone through, and the token stored before is still there.
C7_Witness ==
    \E c \in Sessions :
        /\ fc[c].pc = "done" /\ fc[c].err = TokenErr /\ fc[c].call = "recent"
        /\ accessToken # "" /\ tokenExpiry # ZeroTime

\* C17: RenderFromURL("", cols, rows) returns at once: it is never at the
\* lock, the lookup, the GET, the decode or the store; the step that makes
\* the call leaves the cache and its lock as they were; it returns a nil
\* error and the placeholder of its cols and rows (two gray cells and a
\* reset for 2 x 1); and the empty string is never a key of the cache.
C17_EmptyURL ==
    /\ [](EmptyURL \notin DOMAIN cache)
    /\ [](\A c \in Sessions :
            (rc[c].op = "render" /\ rc[c].url = EmptyURL) =>
                /\ rc[c].pc = "done"
                /\ ~rc[c].got /\ rc[c].resp = NoResp
                /\ c \notin cacheMu.r \cup cacheMu.w
                /\ rc[c].err = NoErr
                /\ rc[c].frame = renderPlaceholder(rc[c].width, rc[c].height)
                /\ <<rc[c].width, rc[c].height>> = <<2, 1>> =>
                      rc[c].frame = <<gray, gray, RESET>>)
    /\ [][\A c \in Sessions :
            (rc'[c] # rc[c] /\ rc'[c].op = "render" /\ rc'[c].url = EmptyURL) =>
                (cache' = cache /\ cacheMu' = cacheMu /\ nsec' = nsec)]_vars

\* C17 witness: a call with the empty URL has returned the 2 x 1 placeholder
\* while the cache holds entries and another call is at its GET.
C17_Witness ==
    \E c, d \in Sessions :
        /\ Returned(c) /\ rc[c].url = EmptyURL /\ rc[c].err = NoErr
        /\ rc[c].frame = <<gray, gray, RESET>>
        /\ Cardinality(DOMAIN cache) > 0
        /\ rc[d].pc = "get"

\* Line i of the frame is cols gray cells followed by one reset.
GrayLine(line, cols) ==
    /\ Len(line) = cols + 1
    /\ \A j \in 1..cols : line[j] = [fg |-> <<60, 60, 60>>, bg |-> <<40, 40, 40>>]
    /\ line[cols + 1] = RESET

\* C18 as stated: for all cols >= 0 and rows >= 0, RenderFromURL("", cols,
\* rows) splits on newline into exactly rows lines, each of cols gray cells
\* followed by one reset.
C18_Original ==
    \A c \in Sessions :
        (Returned(c) /\ rc[c].url = EmptyURL) =>
            /\ Len(Split(rc[c].frame)) = rc[c].height
            /\ \A i \in DOMAIN Split(rc[c].frame) : GrayLine(Split(rc[c].frame)[i], rc[c].width)

\* C18 amended: for cols >= 0 and rows >= 1, RenderFromURL("", cols, rows)
\* splits on newline into exactly rows lines, each of cols gray cells followed
\* by one reset, and does not end with a newline; for rows = 0 it is the
\* empty string (which splits into one empty line); two calls with the same
\* cols and rows return the same string.
C18_PlaceholderStructure ==
    /\ \A c \in Sessions :
          (Returned(c) /\ rc[c].url = EmptyURL) =>
              IF rc[c].height = 0
                THEN rc[c].frame = <<>>
                ELSE /\ Len(Split(rc[c].frame)) = rc[c].height
                     /\ \A i \in DOMAIN Split(rc[c].frame) :
                           GrayLine(Split(rc[c].frame)[i], rc[c].width)
                     /\ rc[c].frame[Len(rc[c].frame)] # NL
    /\ \A c, d \in Sessions :
          (/\ Returned(c) /\ Returned(d)
           /\ rc[c].url = EmptyURL /\ rc[d].url = EmptyURL
           /\ rc[c].width = rc[d].width /\ rc[c].height = rc[d].height)
          => rc[c].frame = rc[d].frame

\* C18 witness: RenderFromURL("", 4, 2) has returned two lines, and the other
\* goroutine's call with the empty URL has returned too.
C18_Witness ==
    \E c, d \in Sessions :
        /\ c # d /\ Returned(c) /\ Returned(d)
        /\ rc[c].url = EmptyURL /\ rc[d].url = EmptyURL
        /\ rc[c].width = 4 /\ rc[c].height = 2
        /\ Len(Split(rc[c].frame)) = 2

\* A call of RenderFromURL that came back with a frame other than the
\* placeholder: a hit, or a download that was decoded and rendered.
NonPlaceholder(c) == Returned(c) /\ rc[c].url # EmptyURL /\ rc[c].err = NoErr

\* C11: every RenderFromURL(url, cols, rows) that returns a frame other than
\* the placeholder returns exactly rows lines of exactly cols half-block
\* cells each, for the cols and rows of that very call, hits included.
C11_FrameDimensions ==
    \A c \in Sessions :
        NonPlaceholder(c) => Shaped(rc[c].frame, rc[c].width, rc[c].height)

\* The step in which goroutine c does the lookup of lines 60-66.
LooksUp(c) == rc[c].pc = "rlocked" /\ rc'[c].pc # "rlocked"

\* The step in which goroutine c runs lines 191-192 of ClearCache.
Clears(c) == rc[c].pc = "clearing" /\ rc'[c].pc = "done"

\* The entry of key k is 5 minutes old or older.
Stale(k) == k \in DOMAIN cache /\ now - cache[k].timestamp.t >= cacheTTL

\* C21: a lookup changes nothing in the cache; it returns the stored frame,
\* without a GET and without an error, exactly when the URL is a key and its
\* entry is less than 5 minutes old, and goes on to the GET otherwise.  A
\* stale entry changes or leaves the map only in a step that is the
\* insertion of a render of the same URL, an insertion into a full cache that
\* evicts it, or ClearCache.
C21_LookupReadOnly ==
    [][/\ \A c \in Sessions :
            LooksUp(c) =>
                /\ cache' = cache
                /\ IF /\ rc[c].url \in DOMAIN cache
                      /\ now - cache[rc[c].url].timestamp.t < cacheTTL
                   THEN /\ rc'[c].pc = "done" /\ rc'[c].err = NoErr /\ ~rc'[c].got
                        /\ rc'[c].frame = cache[rc[c].url].rendered
                   ELSE rc'[c].pc = "get"
       /\ \A k \in DOMAIN cache :
            (Stale(k) /\ (k \notin DOMAIN cache' \/ cache'[k] # cache[k])) =>
                \E c \in Sessions :
                    \/ /\ Inserts(c) /\ rc[c].url = k /\ k \in DOMAIN cache'
                       /\ cache'[k] = [rendered |-> rc[c].rendered, timestamp |-> TimeNow]
                    \/ /\ Inserts(c) /\ Size >= cacheSize /\ rc'[c].oldestKey = k
                       /\ k \notin DOMAIN cache'
                    \/ Clears(c) /\ cache' = <<>>]_vars

\* C21 witness: a lookup found an entry exactly 5 minutes old and went on to
\* the GET; the entry is still in the map.
C21_Witness ==
    \E c \in Sessions :
        /\ rc[c].pc = "get" /\ rc[c].url \in DOMAIN cache
        /\ now - cache[rc[c].url].timestamp.t = cacheTTL

\* C22: a call whose GET fails in transport, or whose body is not an image,
\* returns in that very step the placeholder of its own cols and rows with a
\* non-nil error, and the step leaves the cache as it is; no step of such a
\* call is an insertion (the map changes only in an insertion or a
\* ClearCache of some goroutine, and a call that has failed never rendered,
\* evicted or stored), so a stale entry of the same URL stays as it was.
C22_FailureLeavesCache ==
    /\ [][/\ \A c \in Sessions :
               /\ (rc[c].pc = "get" /\ rc'[c].pc = "done") =>
                     /\ rc'[c].err # NoErr
                     /\ rc'[c].frame = renderPlaceholder(rc[c].width, rc[c].height)
                     /\ cache' = cache
               /\ (rc[c].pc = "decode" /\ rc'[c].pc # "decode" /\ rc[c].resp.body # "image") =>
                     /\ rc'[c].pc = "done" /\ rc'[c].err # NoErr
                     /\ rc'[c].frame = renderPlaceholder(rc[c].width, rc[c].height)
                     /\ cache' = cache
          /\ cache' # cache =>
               \/ \E c \in Sessions : Inserts(c) /\ rc[c].err = NoErr /\ rc[c].resp.body = "image"
               \/ \E c \in Sessions : Clears(c)
               \/ warm' = warm + 1]_vars
    /\ [](\A c \in Sessions :
            (Returned(c) /\ rc[c].err # NoErr) =>
                /\ rc[c].got /\ rc[c].rendered = NoFrame /\ rc[c].ts = NoTime
                /\ rc[c].oldestKey = EmptyURL
                /\ rc[c].frame = renderPlaceholder(rc[c].width, rc[c].height))

\* C22 witness: a call for a URL whose entry is stale came back with the
\* decode error, and the stale entry is still in the map.
C22_Witness ==
    \E c \in Sessions :
        /\ Returned(c) /\ rc[c].err = DecodeErr
        /\ Stale(rc[c].url)

\* Goroutines c and d both came back from a download of the same URL that
\* was decoded, rendered and stored, c's store before d's.
BothStored(c, d) ==
    /\ c # d /\ Returned(c) /\ Returned(d)
    /\ rc[c].url = rc[d].url /\ rc[c].url # EmptyURL
    /\ rc[c].err = NoErr /\ rc[d].err = NoErr
    /\ rc[c].got /\ rc[d].got
    /\ Before(rc[c].ts, rc[d].ts)

\* C23: a goroutine whose lookup missed does its own GET whatever another
\* goroutine inserts meanwhile; it stores the frame it rendered itself, as
\* the only holder of cacheMu; and once two goroutines have both stored a
\* render of the same URL the map has that URL as one key, with the frame
\* and the timestamp of the store that came last.
C23_LaterWriterWins ==
    /\ [][\A c \in Sessions :
            /\ (rc[c].pc = "get" /\ rc'[c].pc # "get") => rc'[c].got
            /\ Inserts(c) =>
                  /\ cacheMu = [w |-> {c}, r |-> {}]
                  /\ rc[c].got
                  /\ rc[c].rendered = renderImage(rc[c].url, rc[c].width, rc[c].height)
                  /\ rc[c].url \in DOMAIN cache'
                  /\ cache'[rc[c].url] = [rendered |-> rc[c].rendered, timestamp |-> TimeNow]]_vars
    /\ [](\A c, d \in Sessions :
            BothStored(c, d) =>
                /\ rc[c].url \in DOMAIN cache
                /\ cache[rc[c].url] = [rendered |-> rc[d].frame, timestamp |-> rc[d].ts])

\* C23 witness: the map was empty and the clock never moved, so both lookups
\* missed before either store; the two calls asked for different sizes, and
\* the entry has the frame of the later store, not that of the earlier one.
C23_Witness ==
    \E c, d \in Sessions :
        /\ BothStored(c, d)
        /\ warm = 0 /\ now = 0 /\ nsec = 2
        /\ rc[c].frame # rc[d].frame
        /\ cache[rc[c].url].rendered = rc[d].frame

\* C26: an insertion for a URL that is already a key, into a cache of 10
\* entries, removes no entry of another URL and leaves 10 entries.
C26_ReinsertKeepsOthers ==
    [][\A c \in Sessions :
         (Inserts(c) /\ Size = cacheSize /\ rc[c].url \in DOMAIN cache) =>
             /\ DOMAIN cache' = DOMAIN cache
             /\ Cardinality(DOMAIN cache') = cacheSize]_vars

\* Goroutine c is the only one that has ever called into the client.
OnlyCaller(c) == \A d \in Sessions \ {c} : fc[d].pc = "idle"

\* C16 as stated: a GetCurrentlyPlaying call of the only caller that found the
\* stored token invalid has sent exactly one GET when it returns.
C16_Original ==
    \A c \in Sessions :
        (/\ OnlyCaller(c) /\ fc[c].call = "current" /\ fc[c].pc = "done"
         /\ fc[c].path = "refresh")
        => fc[c].gets = 1

\* C16 amended: for the only caller, a POST is sent only by ensureValidToken
\* finding the stored token invalid, once per call; the GET is sent only
\* after ensureValidToken returned nil, by the fast path without a POST or
\* after the store of the POST's answer; when the token endpoint answered
\* 200 with a JSON body the GET carries the access_token of that answer; with
\* a valid stored token the GET carries the stored token and no POST is
\* sent; when the POST fails no GET is sent.
C16_RefreshThenGet ==
    /\ [][\A c \in Sessions :
            (OnlyCaller(c) /\ posts' # posts) =>
                /\ fc[c].pc = "ensure_r" /\ fc'[c].pc = "post"
                /\ ~(accessToken # "" /\ now < tokenExpiry)
                /\ posts' = posts + 1]_vars
    /\ [][\A c \in Sessions :
            (OnlyCaller(c) /\ fc[c].pc = "ensure_r" /\ fc'[c].pc # "ensure_r") =>
                IF accessToken # "" /\ now < tokenExpiry
                  THEN fc'[c].pc = "header" /\ posts' = posts
                  ELSE fc'[c].pc = "post"]_vars
    /\ [][\A c \in Sessions :
            (fc[c].pc # "ensure_r" /\ fc'[c].pc = "ensure_r") => fc[c].pc = "ensure"]_vars
    /\ [][\A c \in Sessions :
            (fc[c].pc # "header" /\ fc'[c].pc = "header") =>
                \/ fc[c].pc = "ensure_r" /\ fc'[c].path = "fast"
                \/ fc[c].pc = "store_w" /\ fc[c].path = "refresh"]_vars
    /\ [][\A c \in Sessions :
            (fc[c].pc # "ensure" /\ fc'[c].pc # "ensure" /\ fc'[c].gets # fc[c].gets) =>
                /\ fc[c].pc = "header_r" /\ fc'[c].pc = "get"
                /\ fc'[c].gets = fc[c].gets + 1]_vars
    /\ [](\A c \in Sessions :
            (OnlyCaller(c) /\ fc[c].call = "current" /\ fc[c].pc = "get") =>
                /\ fc[c].gets = 1
                /\ fc[c].bearer = accessToken
                /\ fc[c].path = "refresh" =>
                      /\ fc[c].tokenResp.status = 200 /\ fc[c].tokenResp.body.json
                      /\ fc[c].bearer = fc[c].tokenResp.body.access_token
                /\ fc[c].path = "fast" =>
                      (fc[c].tokenResp = NoTokenResp /\ fc[c].bearer # ""))
    /\ [](\A c \in Sessions :
            (/\ OnlyCaller(c) /\ fc[c].call = "current" /\ fc[c].pc = "done"
             /\ fc[c].err = TokenErr)
            => (fc[c].gets = 0 /\ fc[c].path = "refresh"))

\* C16 witness: the only caller is in its second GetCurrentlyPlaying call.
\* The first call's POST was answered with expires_in below 90 and stored, a
\* token expired from the start; the second call sent the second POST, got
\* "tokB" for 90 seconds, stored it and has sent its GET with "tokB".
C16_Witness ==
    \E c \in Sessions :
        /\ OnlyCaller(c) /\ fc[c].call = "current" /\ fc[c].pc = "get"
        /\ fc[c].path = "refresh" /\ posts = 2 /\ evCalls = 2 /\ ~allLong
        /\ fc[c].tokenResp.body = [json |-> TRUE, access_token |-> "tokB", expires_in |-> 90]
        /\ fc[c].bearer = "tokB" /\ fc[c].gets = 1

\* C19: in the step in which a Get* call looks at its answer:
\* GetCurrentlyPlaying returns (nil, nil) on 204, whatever the body, which is
\* not decoded (fetchTrack goes on to the fallback); on a status other than
\* 204 and 200 it returns no track and the error with that status, the body
\* not decoded; on 200 it decodes, returning (nil, nil) for a null item and
\* the decode error for a body that is not JSON.  GetRecentlyPlayed decodes
\* on 200 only and returns no track and the error with the status on every
\* other status, 204 included.
C19_StatusClassification ==
    [][\A c \in Sessions :
         (fc[c].pc = "answered" /\ fc'[c].pc # "answered") =>
             LET r == fc[c].resp
                 StatusFails == /\ fc'[c].pc = "done" /\ fc'[c].track = NoTrack
                                /\ fc'[c].err = "spotify API error: " \o ToString(r.status)
                 FallsBack == /\ fc'[c].pc = "ensure" /\ fc'[c].call = "recent"
                              /\ fc'[c].err = NoErr /\ fc'[c].track = NoTrack
             IN IF fc[c].call = "current"
                  THEN /\ r.status = 204 => (FallsBack /\ ~CurrentResult(r).decoded)
                       /\ r.status \notin {200, 204} =>
                             (StatusFails /\ ~CurrentResult(r).decoded)
                       /\ r.status = 200 =>
                             /\ CurrentResult(r).decoded
                             /\ ~r.body.json => (fc'[c].pc = "done" /\ fc'[c].err = JSONErr)
                             /\ (r.body.json /\ r.body.item = NoItem) => FallsBack
                             /\ (r.body.json /\ r.body.item # NoItem) =>
                                   /\ fc'[c].pc = "done" /\ fc'[c].err = NoErr
                                   /\ fc'[c].track.Name = r.body.item.name
                  ELSE /\ r.status # 200 => (StatusFails /\ ~RecentResult(r).decoded)
                       /\ r.status = 200 =>
                             /\ RecentResult(r).decoded
                             /\ fc'[c].pc = "done"
                             /\ fc'[c].err = (IF r.body.json THEN NoErr ELSE JSONErr)]_vars

\* C19 witness: currently-playing gave (nil, nil), fetchTrack fell back, and
\* GetRecentlyPlayed, answered 204, returned the error with that status.
C19_Witness ==
    \E c \in Sessions :
        /\ fc[c].pc = "done" /\ fc[c].call = "recent" /\ fc[c].gets = 2
        /\ fc[c].track = NoTrack /\ fc[c].err = "spotify API error: 204"

(***************************************************************************)
(* Claims about the sessions, checked under Spec.                          *)
(***************************************************************************)

\* A tick of session s waits for Update.
TickWaiting(s) == \E i \in DOMAIN sess[s].inbox : sess[s].inbox[i].type = "tickMsg"

\* C1 as stated: a session that has not quit gets a tick every 10 seconds
\* forever, so after Update has handled a tick another tick is still to
\* come: the session's timer is armed, or a tick waits for Update.
C1_NextTickComes ==
    \A s \in Sessions :
        (Running(s) /\ sess[s].ticks >= 1) => (sess[s].timer # NoTimer \/ TickWaiting(s))

\* C12: when Update handles a trackMsg that carries an error, the session's
\* currentTrack, width and height stay as they were, Update returns no
\* command (no fetch is started, no timer armed), and the program keeps
\* running.
C12_ErrorsSwallowed ==
    [][\A s \in Sessions, i \in 1..MaxInbox :
         (UpdateTrack(s, i) /\ sess[s].inbox[i].err # NoErr) =>
             /\ sess'[s].currentTrack = sess[s].currentTrack
             /\ sess'[s].width = sess[s].width
             /\ sess'[s].height = sess[s].height
             /\ sess'[s].cmds = sess[s].cmds
             /\ sess'[s].fetches = sess[s].fetches
             /\ sess'[s].timer = sess[s].timer
             /\ sess'[s].status = "running"]_vars

\* C12 witness: the only session connected at 0 and got a track from a fetch
\* that stored expires_in = 90 at 0 (expiry 30); its second fetch, started by
\* the tick at 30, found the token expired and stored nothing, so it ended
\* with the token error; Update has handled that message, and the track is
\* still there.
C12_Witness ==
    \E s \in Sessions :
        /\ Running(s) /\ \A t \in Sessions \ {s} : sess[t].status = "none"
        /\ spotifyClient /\ now = 30 /\ tokenExpiry = 30
        /\ sess[s].ticks = 1 /\ sess[s].fetches = 2
        /\ sess[s].cmds = 0 /\ sess[s].inbox = <<>>
        /\ sess[s].currentTrack # NoTrack

\* C24: a session whose currentTrack is non-nil has it non-nil after every
\* step; Update on a trackMsg with nil track and nil error leaves currentTrack
\* as it is; and Update on a window-size, key or tick message leaves
\* currentTrack as it is.
C24_TrackNeverLost ==
    [][\A s \in Sessions :
         /\ sess[s].currentTrack # NoTrack => sess'[s].currentTrack # NoTrack
         /\ \A i \in 1..MaxInbox :
               (/\ UpdateTrack(s, i)
                /\ sess[s].inbox[i].track = NoTrack /\ sess[s].inbox[i].err = NoErr)
               => sess'[s].currentTrack = sess[s].currentTrack
         /\ (\/ \E d \in WindowSizes : UpdateWindowSize(s, d[1], d[2])
             \/ \E key \in Keys : UpdateKey(s, key)
             \/ \E i \in 1..MaxInbox : UpdateTick(s, i))
               => sess'[s].currentTrack = sess[s].currentTrack]_vars

\* C24 witness: a session got a track, handled its tick, and then a quit key
\* while the message of its second fetch, trackMsg{nil, nil}, was about to
\* be sent; the other session, still running, displays a track with
\* trackMsg{nil, nil} waiting for Update.
C24_Witness ==
    \E s, t \in Sessions :
        /\ sess[s].status = "quit" /\ sess[s].currentTrack # NoTrack
        /\ sess[s].ticks = 1
        /\ Running(t) /\ sess[t].currentTrack # NoTrack
        /\ sess[t].inbox = <<TrackMsg(NoTrack, NoErr)>>

(***************************************************************************)
(* Claims about fetchTrack and the message it hands to the session,        *)
(* checked under SpecFetch.                                                *)
(***************************************************************************)

\* The answer makes GetCurrentlyPlaying return (nil, nil): 204, or 200 with
\* a body whose item is null.
NothingPlaying(resp) ==
    \/ resp.status = 204
    \/ resp.status = 200 /\ resp.body.json /\ resp.body.item = NoItem

\* C13: fetchTrack goes on to GetRecentlyPlayed exactly when
\* GetCurrentlyPlaying returned (nil, nil); when GetCurrentlyPlaying returned
\* an error, fetchTrack returns that error with no track and without a second
\* call; a track of the fallback is in the message with IsPlaying = false,
\* the message reaches the session as it is, and Update makes its track the
\* currentTrack; recently-played answering 200 with the one item "Song" gives
\* the message that item's track with IsPlaying = false.
C13_FallbackComposition ==
    /\ [][\A c \in Sessions :
            (fc[c].call # "recent" /\ fc'[c].call = "recent") =>
                /\ fc[c].call = "current" /\ fc[c].pc = "answered"
                /\ NothingPlaying(fc[c].resp)
                /\ fc'[c].pc = "ensure"]_vars
    /\ [][\A c \in Sessions :
            (/\ fc[c].call = "current" /\ fc[c].pc = "answered"
             /\ fc'[c].pc # "answered" /\ NothingPlaying(fc[c].resp))
            => fc'[c].call = "recent"]_vars
    /\ [][\A c \in Sessions :
            (/\ fc[c].call = "current" /\ fc[c].pc # "done"
             /\ fc'[c].pc = "done" /\ ~NothingPlaying(fc[c].resp)
             /\ fc[c].pc \in {"post", "get"} \/ fc[c].resp.status # 200 \/ ~fc[c].resp.body.json)
            => /\ fc'[c].call = "current" /\ fc'[c].track = NoTrack
               /\ fc'[c].gets <= 1
               /\ fc'[c].err = (IF fc[c].pc = "post" THEN TokenErr
                                ELSE IF fc[c].pc = "get" THEN RequestErr
                                ELSE IF fc[c].resp.status = 200 THEN JSONErr
                                ELSE StatusErr \o ToString(fc[c].resp.status))]_vars
    /\ [](\A c \in Sessions :
            (fc[c].pc = "done" /\ fc[c].call = "recent" /\ fc[c].track # NoTrack)
            => (fc[c].err = NoErr /\ ~fc[c].track.IsPlaying))
    /\ [][\A s \in Sessions :
            (fc[s].pc = "done" /\ fc'[s].pc # "done") =>
                sess'[s].inbox = Append(sess[s].inbox, TrackMsg(fc[s].track, fc[s].err))]_vars
    /\ [][\A s \in Sessions, i \in 1..MaxInbox :
            (/\ UpdateTrack(s, i) /\ sess[s].inbox[i].err = NoErr
             /\ sess[s].inbox[i].track # NoTrack)
            => sess'[s].currentTrack = sess[s].inbox[i].track]_vars
    /\ [][\A c \in Sessions :
            (/\ fc[c].call = "recent" /\ fc[c].pc = "answered" /\ fc'[c].pc # "answered"
             /\ fc[c].resp = [status |-> 200,
                              body |-> [json |-> TRUE, items |-> <<[track |-> ItemFull]>>]])
            => /\ fc'[c].pc = "done" /\ fc'[c].err = NoErr
               /\ fc'[c].track = [Name |-> "Song", Artist |-> "Ana", Album |-> "Album",
                                  ArtworkURL |-> 1, IsPlaying |-> FALSE]]_vars

\* C13 witness: a session displays "Song" as not playing.  The only answer
\* of currently-playing that carries "Song" says it is playing, so the track
\* came through the fallback, after currently-playing answered 204 or a null
\* item, and Update has taken it from the message.
C13_Witness ==
    \E s \in Sessions :
        /\ Running(s) /\ fc[s].pc = "idle" /\ sess[s].inbox = <<>> /\ sess[s].cmds = 0
        /\ sess[s].currentTrack = [Name |-> "Song", Artist |-> "Ana", Album |-> "Album",
                                   ArtworkURL |-> 1, IsPlaying |-> FALSE]

\* C14: when one of the three credentials is empty at startup no Client
\* exists; no token POST and no API GET is ever sent, no fetchTrack command
\* is ever inside a Client call, each returns trackMsg{nil, nil}, only such
\* messages wait for Update, and every session's currentTrack is nil.
C14_DisabledWithoutCredentials ==
    (env.clientID = "" \/ env.clientSecret = "" \/ env.refreshToken = "") =>
        /\ ~spotifyClient
        /\ posts = 0 /\ evCalls = 0 /\ accessToken = ""
        /\ \A s \in Sessions :
              /\ fc[s].pc \in {"idle", "done"}
              /\ fc[s].gets = 0 /\ fc[s].track = NoTrack /\ fc[s].err = NoErr
              /\ \A i \in DOMAIN sess[s].inbox :
                    sess[s].inbox[i] = TrackMsg(NoTrack, NoErr)
              /\ sess[s].currentTrack = NoTrack

\* C14 witness: only the refresh token is missing; both sessions connected,
\* the fetchTrack command of each has returned and Update has handled its
\* message.
C14_Witness ==
    /\ env = [clientID |-> "set", clientSecret |-> "set", refreshToken |-> ""]
    /\ \A s \in Sessions :
          /\ Running(s) /\ sess[s].fetches = 1 /\ sess[s].cmds = 0
          /\ sess[s].inbox = <<>> /\ fc[s].pc = "idle"
          /\ sess[s].currentTrack = NoTrack

(***************************************************************************)
(* Claims about View, checked under SpecView.                              *)
(***************************************************************************)

\* C15: the artwork GET and the image decode never run inside a session's
\* Update/View processing: while the download or the decode of a session's
\* artwork is in progress, the session can still process a resize.
C15_NoIOOnSerialPath ==
    \A s \in Sessions :
        (Running(s) /\ rc[s].pc \in {"get", "decode"}) =>
            ENABLED (\E d \in WindowSizes : Serial(s) /\ UpdateWindowSize(s, d[1], d[2]))

(***************************************************************************)
(* Claims about the widget's texts, checked under SpecWidget.              *)
(***************************************************************************)

\* UTF-8: the bytes the first n characters of s take, and the characters of s.
RECURSIVE PrefixBytes(_, _, _)
PrefixBytes(s, i, n) ==
    IF n = 0 \/ i > Len(s) THEN i - 1
    ELSE PrefixBytes(s, i + (IF s[i] >= 192 THEN 2 ELSE 1), n - 1)
FirstChars(s, n) == SubSeq(s, 1, PrefixBytes(s, 1, n))
Chars(s) == Cardinality({i \in DOMAIN s : s[i] < 128 \/ s[i] >= 192})

\* U+2026 in UTF-8.
Ellipsis == <<226, 128, 166>>

\* The text the widget shows for a text of the track, as the claim has it.
Shown(text, full) == Chars(full) = 30 => text = FirstChars(full, 23) \o Ellipsis

\* C20: in the widget View returned, a track name of 30 characters is shown
\* as its first 23 characters followed by the one character U+2026, and so
\* are an artist and an album of 30 characters.
C20_Truncation ==
    \A s \in Sessions :
        screen[s].kind = "track" =>
            /\ Shown(screen[s].trackName, sess[s].currentTrack.Name)
            /\ Shown(screen[s].artist, sess[s].currentTrack.Artist)
            /\ Shown(screen[s].album, sess[s].currentTrack.Album)

(***************************************************************************)
(* Claims about the two mutexes, checked under SpecLocks.                  *)
(***************************************************************************)

\* Goroutine c has an artwork GET or an image decode in progress.
CacheIO(c) == rc[c].pc \in {"get", "decode"}

\* Goroutine c has a token POST or an API GET in progress, or reads its answer.
ClientIO(c) == fc[c].pc \in {"post", "get", "answered"}

\* Goroutine c is in no call of either package.
Outside(c) == rc[c].pc \in {"idle", "done"} /\ fc[c].pc \in {"idle", "done"}

\* Goroutine c holds mutex m, for reading or for writing.
Holds(m, c) == c \in m.w \cup m.r

\* C25: a goroutine with a GET, a POST or a decode in progress, and one in no
\* call at all, holds neither mutex; the holders of cacheMu are the
\* goroutines inside lines 60-65, 86-98 and 191 and those of c.mu the ones
\* inside 519, 573-574 and 393, and the step that leaves each of these
\* sections with the mutex released can always be taken; a goroutine about
\* to look up or to test the token can take its read lock whenever the
\* others are in I/O or in no call; and whenever a goroutine waits for or
\* holds a mutex some step that takes or releases one can be taken.
C25_NoLockAcrossIO ==
    /\ \A c \in Sessions :
          (CacheIO(c) \/ ClientIO(c) \/ Outside(c)) =>
              ~Holds(cacheMu, c) /\ ~Holds(mu, c)
    /\ cacheMu.r = {c \in Sessions : rc[c].pc = "rlocked"}
    /\ cacheMu.w = {c \in Sessions : rc[c].pc \in {"wlocked", "clearing"}}
    /\ mu.r = {c \in Sessions : fc[c].pc \in {"ensure_r", "header_r"}}
    /\ mu.w = {c \in Sessions : fc[c].pc = "store_w"}
    /\ \A c \in Sessions :
          /\ rc[c].pc = "rlocked" => ENABLED (RenderLookup(c) /\ ~Holds(cacheMu', c))
          /\ rc[c].pc = "wlocked" => ENABLED (RenderInsert(c) /\ ~Holds(cacheMu', c))
          /\ rc[c].pc = "clearing" => ENABLED (ClearCache(c) /\ ~Holds(cacheMu', c))
          /\ fc[c].pc = "ensure_r" => ENABLED (EnsureTest(c) /\ ~Holds(mu', c))
          /\ fc[c].pc = "store_w" => ENABLED (Store(c) /\ ~Holds(mu', c))
          /\ fc[c].pc = "header_r" => ENABLED (HeaderRead(c) /\ ~Holds(mu', c))
    /\ \A d \in Sessions :
          (\A c \in Sessions \ {d} : CacheIO(c) \/ ClientIO(c) \/ Outside(c)) =>
              /\ rc[d].pc = "check" => ENABLED RenderRLock(d)
              /\ fc[d].pc = "ensure" => ENABLED EnsureRLock(d)
    /\ (\E c \in Sessions : ~(CacheIO(c) \/ ClientIO(c) \/ Outside(c))) =>
          ENABLED (\E c \in Sessions :
                      \/ RenderRLock(c) \/ RenderLookup(c) \/ RenderLock(c) \/ RenderInsert(c)
                      \/ ClearLock(c) \/ ClearCache(c)
                      \/ EnsureRLock(c) \/ EnsureTest(c) \/ StoreLock(c) \/ Store(c)
                      \/ HeaderRLock(c) \/ HeaderRead(c))

\* C25 witness: one goroutine is downloading the artwork of a URL while the
\* other holds the read lock for its lookup of the same URL.
C25_Witness ==
    \E c, d \in Sessions :
        /\ rc[c].pc = "get" /\ rc[d].pc = "rlocked"
        /\ rc[c].url = rc[d].url
        /\ cacheMu = [w |-> {}, r |-> {d}]

====
